---- MODULE Spec2Model ----
(***************************************************************************)
(* Model of the NineSong catalog query repositories:                       *)
(*   repository_route_media_file.go  (tracks, "media")                     *)
(*   repository_route_album.go       (albums, "album")                     *)
(* Each repository composes an aggregation pipeline from request strings,  *)
(* runs it against the catalog store and decodes the cursor.               *)
(*                                                                         *)
(* Strings whose characters matter (they are parsed, lower-cased or        *)
(* matched by a regex) are sequences of one-character strings.  Strings    *)
(* that the code only compares with literals (order, starred) are TLA+     *)
(* strings.                                                                *)
(***************************************************************************)
EXTENDS Integers, Sequences, FiniteSets, TLC

VARIABLES kind, store, req, op, pipeline, pc, ctx, cursor, outcome, prev

vars == <<kind, store, req, op, pipeline, pc, ctx, cursor, outcome, prev>>

(***************************************************************************)
(* Bounds of the model.                                                    *)
(***************************************************************************)
\* number of entities in the collection of a snapshot
MaxEntities == 3
\* longest start / end / year string that is enumerated
MaxNumLen == 2

(***************************************************************************)
(* Characters and strings.                                                 *)
(***************************************************************************)
DigitChars == <<"0", "1", "2", "3", "4", "5", "6", "7", "8", "9">>

UpperChars == <<"A", "B", "C", "D", "E", "F", "G", "H", "I", "J", "K", "L", "M",
                "N", "O", "P", "Q", "R", "S", "T", "U", "V", "W", "X", "Y", "Z">>

LowerChars == <<"a", "b", "c", "d", "e", "f", "g", "h", "i", "j", "k", "l", "m",
                "n", "o", "p", "q", "r", "s", "t", "u", "v", "w", "x", "y", "z">>

\* the characters of the model in byte order
ByteOrder == <<"$", "+", "-">> \o DigitChars \o UpperChars \o <<"_">> \o LowerChars

IndexOf(seq, c) == CHOOSE i \in 1..Len(seq) : seq[i] = c

IsIn(seq, c) == \E i \in 1..Len(seq) : seq[i] = c

Ord(c) == IndexOf(ByteOrder, c)

\* strings.ToLower, character by character
ToLowerChar(c) == IF IsIn(UpperChars, c) THEN LowerChars[IndexOf(UpperChars, c)] ELSE c

ToLower(s) == [i \in 1..Len(s) |-> ToLowerChar(s[i])]

\* all strings over the characters cs of length at most n
RECURSIVE StringsUpTo(_, _)
StringsUpTo(cs, n) ==
    IF n = 0 THEN {<<>>}
    ELSE LET shorter == StringsUpTo(cs, n - 1)
         IN  shorter \cup {Append(s, c) : s \in shorter, c \in cs}

\* byte-wise comparison of two strings: -1, 0 or 1
RECURSIVE CmpString(_, _)
CmpString(a, b) ==
    IF a = <<>> /\ b = <<>> THEN 0
    ELSE IF a = <<>> THEN -1
    ELSE IF b = <<>> THEN 1
    ELSE IF Ord(Head(a)) < Ord(Head(b)) THEN -1
    ELSE IF Ord(Head(a)) > Ord(Head(b)) THEN 1
    ELSE CmpString(Tail(a), Tail(b))

\* whether pat occurs in s as a substring
Contains(s, pat) ==
    \E i \in 0..(Len(s) - Len(pat)) : \A j \in 1..Len(pat) : s[i + j] = pat[j]

(***************************************************************************)
(* strconv.Atoi: an optional sign, then one or more decimal digits.        *)
(* Strings of the model are far shorter than the 64-bit range, so the      *)
(* range error of Atoi is out of reach.                                    *)
(***************************************************************************)
AtoiDigits(s) ==
    IF s # <<>> /\ (s[1] = "-" \/ s[1] = "+") THEN Tail(s) ELSE s

AtoiOk(s) ==
    /\ AtoiDigits(s) # <<>>
    /\ \A i \in 1..Len(AtoiDigits(s)) : IsIn(DigitChars, AtoiDigits(s)[i])

RECURSIVE DigitsValue(_)
DigitsValue(d) ==
    IF d = <<>> THEN 0
    ELSE 10 * DigitsValue(SubSeq(d, 1, Len(d) - 1)) + (IndexOf(DigitChars, d[Len(d)]) - 1)

AtoiVal(s) ==
    IF s[1] = "-" THEN 0 - DigitsValue(AtoiDigits(s)) ELSE DigitsValue(AtoiDigits(s))

(***************************************************************************)
(* strconv.ParseBool: a switch over twelve literals.                       *)
(***************************************************************************)
ParseBoolTrue == {"1", "t", "T", "TRUE", "true", "True"}

ParseBoolFalse == {"0", "f", "F", "FALSE", "false", "False"}

ParseBoolOk(s) == s \in ParseBoolTrue \cup ParseBoolFalse

ParseBoolVal(s) == s \in ParseBoolTrue

(***************************************************************************)
(* BSON values and documents.  A value carries its type t, a number n      *)
(* (numbers, booleans as 0/1, dates, object ids), a string s and, for an   *)
(* array of strings, the set a of its elements.  A document is a function  *)
(* from field names to values; a field that is not in its domain is        *)
(* missing.                                                                *)
(***************************************************************************)
Val(t, n, s, a) == [t |-> t, n |-> n, s |-> s, a |-> a]

Missing == Val("missing", 0, <<>>, {})

Null == Val("null", 0, <<>>, {})

Num(n) == Val("number", n, <<>>, {})

Str(s) == Val("string", 0, s, {})

Bool(b) == Val("bool", IF b THEN 1 ELSE 0, <<>>, {})

Date(n) == Val("date", n, <<>>, {})

Oid(n) == Val("objectId", n, <<>>, {})

Arr(a) == Val("array", 0, <<>>, a)

Get(d, f) == IF f \in DOMAIN d THEN d[f] ELSE Missing

(***************************************************************************)
(* The spelling of the names that a sort string is compared with.          *)
(***************************************************************************)
Spell ==
    [title |-> <<"t", "i", "t", "l", "e">>,
     album |-> <<"a", "l", "b", "u", "m">>,
     artist |-> <<"a", "r", "t", "i", "s", "t">>,
     album_artist |-> <<"a", "l", "b", "u", "m", "_", "a", "r", "t", "i", "s", "t">>,
     year |-> <<"y", "e", "a", "r">>,
     rating |-> <<"r", "a", "t", "i", "n", "g">>,
     starred_at |-> <<"s", "t", "a", "r", "r", "e", "d", "_", "a", "t">>,
     genre |-> <<"g", "e", "n", "r", "e">>,
     play_count |-> <<"p", "l", "a", "y", "_", "c", "o", "u", "n", "t">>,
     play_date |-> <<"p", "l", "a", "y", "_", "d", "a", "t", "e">>,
     duration |-> <<"d", "u", "r", "a", "t", "i", "o", "n">>,
     bit_rate |-> <<"b", "i", "t", "_", "r", "a", "t", "e">>,
     size |-> <<"s", "i", "z", "e">>,
     created_at |-> <<"c", "r", "e", "a", "t", "e", "d", "_", "a", "t">>,
     updated_at |-> <<"u", "p", "d", "a", "t", "e", "d", "_", "a", "t">>,
     name |-> <<"n", "a", "m", "e">>,
     min_year |-> <<"m", "i", "n", "_", "y", "e", "a", "r">>,
     max_year |-> <<"m", "a", "x", "_", "y", "e", "a", "r">>,
     song_count |-> <<"s", "o", "n", "g", "_", "c", "o", "u", "n", "t">>,
     order_album_name |-> <<"o", "r", "d", "e", "r", "_", "a", "l", "b", "u", "m", "_", "n", "a", "m", "e">>]

(***************************************************************************)
(* Pipeline stages and filter clauses (bson.D / bson.E), as records of one *)
(* shape.  A filter is a sequence of clauses: Key is the clause's key in   *)
(* the filter document, form says what its value is.                       *)
(***************************************************************************)
Stage(o, arg, match, sort, n, facets) ==
    [op |-> o, arg |-> arg, match |-> match, sort |-> sort, n |-> n, facets |-> facets]

Clause(key, form, fields, val, range, sub) ==
    [Key |-> key, form |-> form, fields |-> fields, val |-> val, range |-> range, sub |-> sub]

\* {Key: val}
Eq(key, val) == Clause(key, "eq", {}, val, <<>>, <<>>)

\* {Key: {$gt: val}}
Gt(key, val) == Clause(key, "gt", {}, val, <<>>, <<>>)

\* {Key: {$ne: nil}}
NeNull(key) == Clause(key, "neNull", {}, Null, <<>>, <<>>)

\* {"$or": [{f: val} : f in fields]}
OrEq(fields, val) == Clause("$or", "orEq", fields, val, <<>>, <<>>)

\* {"$or": [{f: {$regex: pat, $options: "i"}} : f in fields]}
OrRegex(fields, pat) == Clause("$or", "orRegex", fields, Str(pat), <<>>, <<>>)

\* {"$or": [{f: range} : f in fields]}, range a document of $gte / $lte bounds
OrRange(fields, range) == Clause("$or", "orRange", fields, Null, range, <<>>)

\* {"$and": [sub...]}
And(sub) == Clause("$and", "and", {}, Null, <<>>, sub)

(***************************************************************************)
(* repository_route_media_file.go: the builders.                           *)
(***************************************************************************)
mediaSortMappings ==
    [title |-> "order_title", album |-> "order_album_name",
     artist |-> "order_artist_name", album_artist |-> "order_album_artist_name",
     year |-> "year", rating |-> "rating", starred_at |-> "starred_at",
     genre |-> "genre", play_count |-> "play_count", play_date |-> "play_date",
     duration |-> "duration", bit_rate |-> "bit_rate", size |-> "size",
     created_at |-> "created_at", updated_at |-> "updated_at"]

\* the lookup m[key] of a Go map keyed by strings: ok, and the value
MapHas(m, key) == \E k \in DOMAIN m : Spell[k] = key

MapGet(m, key) == m[CHOOSE k \in DOMAIN m : Spell[k] = key]

\* validateSortField without strings.ToLower
validateSortFieldCaseSensitive(sort, albumId) ==
    IF MapHas(mediaSortMappings, sort)
    THEN MapGet(mediaSortMappings, sort)
    ELSE IF Len(albumId) > 0 THEN "file_name" ELSE "_id"

validateSortField(sort, albumId) ==
    IF MapHas(mediaSortMappings, ToLower(sort))
    THEN MapGet(mediaSortMappings, ToLower(sort))
    ELSE IF Len(albumId) > 0 THEN "file_name" ELSE "_id"

\* buildSortStage without the _id tie-break
buildSortStageNoTieBreak(sort, order) ==
    LET sortOrder == IF order = "desc" THEN -1 ELSE 1
    IN  Stage("$sort", <<>>, <<>>, <<[Key |-> sort, Value |-> sortOrder]>>, 0, <<>>)

buildSortStage(sort, order) ==
    LET sortOrder == IF order = "desc" THEN -1 ELSE 1
    IN  Stage("$sort", <<>>, <<>>,
              <<[Key |-> sort, Value |-> sortOrder], [Key |-> "_id", Value |-> 1]>>, 0, <<>>)

\* buildMediaPaginationStage with the limit taken to be the end bound
buildMediaPaginationStageLimitIsEnd(start, end) ==
    IF ~AtoiOk(start) \/ ~AtoiOk(end) THEN <<>>
    ELSE LET startInt == AtoiVal(start)
             endInt == AtoiVal(end)
         IN  IF startInt < 0 \/ endInt <= startInt THEN <<>>
             ELSE (IF startInt > 0 THEN <<Stage("$skip", <<>>, <<>>, <<>>, startInt, <<>>)>> ELSE <<>>)
                  \o <<Stage("$limit", <<>>, <<>>, <<>>, endInt, <<>>)>>

buildMediaPaginationStage(start, end) ==
    IF ~AtoiOk(start) \/ ~AtoiOk(end) THEN <<>>
    ELSE LET startInt == AtoiVal(start)
             endInt == AtoiVal(end)
             skip == startInt
             limit == endInt - startInt
         IN  IF startInt < 0 \/ endInt <= startInt THEN <<>>
             ELSE (IF skip > 0 THEN <<Stage("$skip", <<>>, <<>>, <<>>, skip, <<>>)>> ELSE <<>>)
                  \o (IF limit > 0 THEN <<Stage("$limit", <<>>, <<>>, <<>>, limit, <<>>)>> ELSE <<>>)

\* buildMatchStage with the error of ParseBool dropped: an unparsable starred is false
buildMatchStageStarredErrIgnored(search, starred, albumId, artistId, year) ==
    (IF artistId # <<>>
     THEN <<And(<<OrEq({"artist_id", "all_artist_ids.artist_id"}, Str(artistId))>>)>>
     ELSE <<>>)
    \o (IF albumId # <<>> THEN <<Eq("album_id", Str(albumId))>> ELSE <<>>)
    \o (IF year # <<>> /\ AtoiOk(year) THEN <<Eq("year", Num(AtoiVal(year)))>> ELSE <<>>)
    \o (IF search # <<>> THEN <<OrRegex({"title", "artist", "album"}, search)>> ELSE <<>>)
    \o (IF starred # "" THEN <<Eq("starred", Bool(ParseBoolVal(starred)))>> ELSE <<>>)

buildMatchStage(search, starred, albumId, artistId, year) ==
    (IF artistId # <<>>
     THEN <<And(<<OrEq({"artist_id", "all_artist_ids.artist_id"}, Str(artistId))>>)>>
     ELSE <<>>)
    \o (IF albumId # <<>> THEN <<Eq("album_id", Str(albumId))>> ELSE <<>>)
    \o (IF year # <<>> /\ AtoiOk(year) THEN <<Eq("year", Num(AtoiVal(year)))>> ELSE <<>>)
    \o (IF search # <<>> THEN <<OrRegex({"title", "artist", "album"}, search)>> ELSE <<>>)
    \o (IF starred # "" /\ ParseBoolOk(starred)
        THEN <<Eq("starred", Bool(ParseBoolVal(starred)))>> ELSE <<>>)

buildBaseMatch(search, albumId, artistId, year) ==
    buildMatchStage(search, "", albumId, artistId, year)

\* extractCount giving the number of count documents instead of the count
extractCountOfDocs(data) == Len(data)

extractCount(data) == IF Len(data) > 0 THEN data[1].count ELSE 0

(***************************************************************************)
(* repository_route_album.go: the builders.                                *)
(***************************************************************************)
albumSortMappings ==
    [name |-> "order_album_name", artist |-> "artist", album_artist |-> "album_artist",
     min_year |-> "min_year", max_year |-> "max_year", rating |-> "rating",
     starred_at |-> "starred_at", genre |-> "genre", song_count |-> "song_count",
     duration |-> "duration", size |-> "size", play_count |-> "play_count",
     play_date |-> "play_date", created_at |-> "created_at", updated_at |-> "updated_at"]

validSortFields ==
    {"order_album_name", "artist", "album_artist", "min_year", "max_year", "rating",
     "starred_at", "genre", "song_count", "duration", "size", "play_count",
     "play_date", "created_at", "updated_at"}

validateAlbumSortField(sort) ==
    LET lowerSort == ToLower(sort)
    IN  IF MapHas(albumSortMappings, lowerSort) THEN MapGet(albumSortMappings, lowerSort)
        ELSE IF \E f \in validSortFields : Spell[f] = lowerSort
             THEN CHOOSE f \in validSortFields : Spell[f] = lowerSort
             ELSE "_id"

buildAlbumSortStage(sort, order) ==
    LET sortOrder == IF order = "desc" THEN -1 ELSE 1
    IN  Stage("$sort", <<>>, <<>>,
              <<[Key |-> sort, Value |-> sortOrder], [Key |-> "_id", Value |-> 1]>>, 0, <<>>)

buildAlbumPaginationStage(start, end) ==
    IF ~AtoiOk(start) \/ ~AtoiOk(end) THEN <<>>
    ELSE LET startInt == AtoiVal(start)
             endInt == AtoiVal(end)
             skip == startInt
             limit == endInt - startInt
         IN  IF startInt < 0 \/ endInt <= startInt THEN <<>>
             ELSE (IF skip > 0 THEN <<Stage("$skip", <<>>, <<>>, <<>>, skip, <<>>)>> ELSE <<>>)
                  \o (IF limit > 0 THEN <<Stage("$limit", <<>>, <<>>, <<>>, limit, <<>>)>> ELSE <<>>)

yearFilterOf(minYear, maxYear) ==
    (IF minYear # <<>> /\ AtoiOk(minYear)
     THEN <<[op |-> "$gte", n |-> AtoiVal(minYear)]>> ELSE <<>>)
    \o (IF maxYear # <<>> /\ AtoiOk(maxYear)
        THEN <<[op |-> "$lte", n |-> AtoiVal(maxYear)]>> ELSE <<>>)

\* buildAlbumMatch with the year clause on min_year alone
buildAlbumMatchMinYearOnly(search, starred, artistId, minYear, maxYear) ==
    (IF artistId # <<>>
     THEN <<OrEq({"artist_id", "all_artist_ids.artist_id"}, Str(artistId))>>
     ELSE <<>>)
    \o (IF (minYear # <<>> \/ maxYear # <<>>) /\ Len(yearFilterOf(minYear, maxYear)) > 0
        THEN <<OrRange({"min_year"}, yearFilterOf(minYear, maxYear))>>
        ELSE <<>>)
    \o (IF search # <<>> THEN <<OrRegex({"name", "artist", "album_artist"}, search)>> ELSE <<>>)
    \o (IF starred # "" /\ ParseBoolOk(starred)
        THEN <<Eq("starred", Bool(ParseBoolVal(starred)))>> ELSE <<>>)

buildAlbumMatch(search, starred, artistId, minYear, maxYear) ==
    (IF artistId # <<>>
     THEN <<OrEq({"artist_id", "all_artist_ids.artist_id"}, Str(artistId))>>
     ELSE <<>>)
    \o (IF (minYear # <<>> \/ maxYear # <<>>) /\ Len(yearFilterOf(minYear, maxYear)) > 0
        THEN <<OrRange({"min_year", "max_year"}, yearFilterOf(minYear, maxYear))>>
        ELSE <<>>)
    \o (IF search # <<>> THEN <<OrRegex({"name", "artist", "album_artist"}, search)>> ELSE <<>>)
    \o (IF starred # "" /\ ParseBoolOk(starred)
        THEN <<Eq("starred", Bool(ParseBoolVal(starred)))>> ELSE <<>>)

buildAlbumBaseMatch(search, starred, artistId, minYear, maxYear) ==
    buildAlbumMatch(search, starred, artistId, minYear, maxYear)

(***************************************************************************)
(* The catalog store: what each pipeline stage does to the rows.  A row is *)
(* an entity document e together with anns, the content of its             *)
(* "annotations" field (the joined annotation documents).                  *)
(***************************************************************************)
Min(a, b) == IF a < b THEN a ELSE b

\* the comparison order of BSON types; a missing field sorts as null
TypeRank(t) ==
    CASE t = "missing" -> 1
      [] t = "null" -> 1
      [] t = "number" -> 2
      [] t = "string" -> 3
      [] t = "array" -> 5
      [] t = "objectId" -> 7
      [] t = "bool" -> 8
      [] t = "date" -> 9

CmpInt(a, b) == IF a < b THEN -1 ELSE IF a > b THEN 1 ELSE 0

CmpVal(x, y) ==
    IF TypeRank(x.t) # TypeRank(y.t) THEN CmpInt(TypeRank(x.t), TypeRank(y.t))
    ELSE IF x.t = "string" THEN CmpString(x.s, y.s)
    ELSE CmpInt(x.n, y.n)

\* rows compared under a sort document: the keys in their order, each in its direction
RECURSIVE CmpRows(_, _, _)
CmpRows(r1, r2, sortDoc) ==
    IF sortDoc = <<>> THEN 0
    ELSE LET c == CmpVal(Get(r1.e, Head(sortDoc).Key), Get(r2.e, Head(sortDoc).Key))
         IN  IF c # 0 THEN c * Head(sortDoc).Value
             ELSE CmpRows(r1, r2, Tail(sortDoc))

IndexPermutations(n) == {f \in [1..n -> 1..n] : \A i, j \in 1..n : f[i] = f[j] => i = j}

\* $sort: every arrangement of the rows that the sort document allows; rows that
\* compare equal under it come in an order the store does not promise
SortOutcomes(rows, sortDoc) ==
    {[i \in 1..Len(rows) |-> rows[f[i]]] :
        f \in {g \in IndexPermutations(Len(rows)) :
                 \A i, j \in 1..Len(rows) :
                    i < j => CmpRows(rows[g[i]], rows[g[j]], sortDoc) <= 0}}

\* the paths into the joined annotations that a filter names
AnnPath ==
    ("annotations.starred" :> "starred") @@ ("annotations.play_count" :> "play_count")

\* the values a filter key stands for in a row: an array stands for its elements
Candidates(row, key) ==
    IF key \in DOMAIN AnnPath
    THEN {Get(row.anns[i], AnnPath[key]) : i \in 1..Len(row.anns)}
    ELSE LET x == Get(row.e, key)
         IN  IF x.t = "array" THEN {Str(s) : s \in x.a} ELSE {x}

EqV(x, v) == x.t = v.t /\ x.n = v.n /\ x.s = v.s

GtV(x, v) == x.t = "number" /\ v.t = "number" /\ x.n > v.n

InRange(x, range) ==
    /\ x.t = "number"
    /\ \A i \in 1..Len(range) :
          /\ range[i].op = "$gte" => x.n >= range[i].n
          /\ range[i].op = "$lte" => x.n <= range[i].n

\* {$regex: pat, $options: "i"} for a pattern of plain letters and digits
RegexI(x, pat) == x.t = "string" /\ Contains(ToLower(x.s), ToLower(pat))

RECURSIVE Holds(_, _)
Holds(row, c) ==
    CASE c.form = "eq" -> \E x \in Candidates(row, c.Key) : EqV(x, c.val)
      [] c.form = "gt" -> \E x \in Candidates(row, c.Key) : GtV(x, c.val)
      [] c.form = "neNull" ->
            /\ Candidates(row, c.Key) # {}
            /\ \A x \in Candidates(row, c.Key) : x.t \notin {"null", "missing"}
      [] c.form = "orEq" ->
            \E f \in c.fields : \E x \in Candidates(row, f) : EqV(x, c.val)
      [] c.form = "orRegex" ->
            \E f \in c.fields : \E x \in Candidates(row, f) : RegexI(x, c.val.s)
      [] c.form = "orRange" ->
            \E f \in c.fields : \E x \in Candidates(row, f) : InRange(x, c.range)
      [] c.form = "and" -> \A i \in 1..Len(c.sub) : Holds(row, c.sub[i])

\* a filter document: its clauses, every one of them (a repeated key included)
Matches(row, filter) == \A i \in 1..Len(filter) : Holds(row, filter[i])

MatchRows(rows, filter) ==
    LET Keep(r) == Matches(r, filter) IN SelectSeq(rows, Keep)

\* $lookup: the annotations whose item_id is the entity's _id and whose item_type is
\* the stage's literal
LookupRows(annColl, rows, itemType) ==
    LET Joined(r) ==
            LET Mine(a) == /\ EqV(Get(a, "item_id"), Get(r.e, "_id"))
                           /\ EqV(Get(a, "item_type"), Str(itemType))
            IN  SelectSeq(annColl, Mine)
    IN  [i \in 1..Len(rows) |-> [e |-> rows[i].e, anns |-> Joined(rows[i])]]

\* $unwind with preserveNullAndEmptyArrays: a row per annotation, and the row itself
\* (without the field) when there is none
RECURSIVE UnwindRows(_)
UnwindRows(rows) ==
    IF rows = <<>> THEN <<>>
    ELSE LET r == Head(rows)
         IN  (IF r.anns = <<>> THEN <<r>>
              ELSE [i \in 1..Len(r.anns) |-> [e |-> r.e, anns |-> <<r.anns[i]>>]])
             \o UnwindRows(Tail(rows))

AnnotationFields == {"play_count", "play_date", "rating", "starred", "starred_at"}

\* $addFields f: "$annotations.f": the field is set when the path resolves and is
\* left out of the row when it does not
AddFieldsRows(rows) ==
    LET Flat(r) ==
            LET got == IF r.anns = <<>> THEN {}
                       ELSE AnnotationFields \cap DOMAIN r.anns[1]
                kept == (DOMAIN r.e) \ AnnotationFields
            IN  [e |-> [f \in kept \cup got |->
                            IF f \in got THEN r.anns[1][f] ELSE r.e[f]],
                 anns |-> r.anns]
    IN  [i \in 1..Len(rows) |-> Flat(rows[i])]

\* a $facet branch ending in {$count: "count"}: no document when nothing is counted
CountDocs(rows) == IF Len(rows) = 0 THEN <<>> ELSE <<[count |-> Len(rows)]>>

FacetDoc(rows, facets) ==
    [b \in {facets[i].Key : i \in 1..Len(facets)} |->
        LET branch == facets[CHOOSE i \in 1..Len(facets) : facets[i].Key = b]
        IN  CountDocs(MatchRows(rows, branch.match))]

\* the possible outputs of one stage
ApplyStage(annColl, rows, st) ==
    CASE st.op = "$lookup" -> {LookupRows(annColl, rows, st.arg)}
      [] st.op = "$unwind" -> {UnwindRows(rows)}
      [] st.op = "$addFields" -> {AddFieldsRows(rows)}
      [] st.op = "$match" -> {MatchRows(rows, st.match)}
      [] st.op = "$sort" -> SortOutcomes(rows, st.sort)
      [] st.op = "$skip" -> {SubSeq(rows, st.n + 1, Len(rows))}
      [] st.op = "$limit" -> {SubSeq(rows, 1, Min(st.n, Len(rows)))}
      [] st.op = "$facet" -> {<<FacetDoc(rows, st.facets)>>}

\* the possible outputs of a pipeline
RECURSIVE Exec(_, _, _)
Exec(annColl, rows, stages) ==
    IF stages = <<>> THEN {rows}
    ELSE UNION {Exec(annColl, out, Tail(stages)) : out \in ApplyStage(annColl, rows, Head(stages))}

\* the rows the aggregation starts from: the documents of the collection
CollectionRows(ents) == [i \in 1..Len(ents) |-> [e |-> ents[i], anns |-> <<>>]]

(***************************************************************************)
(* The pipelines the four repository methods compose.  A request r holds   *)
(* the method's string parameters.                                         *)
(***************************************************************************)
\* the item_type literals of the two $lookup stages
MediaType == <<"m", "e", "d", "i", "a">>

AlbumType == <<"a", "l", "b", "u", "m">>

LookupStage(itemType) == Stage("$lookup", itemType, <<>>, <<>>, 0, <<>>)

UnwindStage == Stage("$unwind", <<>>, <<>>, <<>>, 0, <<>>)

AddFieldsStage == Stage("$addFields", <<>>, <<>>, <<>>, 0, <<>>)

MatchStage(filter) == Stage("$match", <<>>, filter, <<>>, 0, <<>>)

FacetStage ==
    Stage("$facet", <<>>, <<>>, <<>>, 0,
          <<[Key |-> "total", match |-> <<>>],
            [Key |-> "starred", match |-> <<Eq("annotations.starred", Bool(TRUE))>>],
            [Key |-> "recent_play", match |-> <<Gt("annotations.play_count", Num(0))>>]>>)

\* MediaItemsPipeline without the play_count restriction of the play_date sort
MediaItemsPipelineNoPlayFilter(r) ==
    LET match == buildMatchStage(r.search, r.starred, r.albumId, r.artistId, r.year)
        validatedSort == validateSortField(r.sort, r.albumId)
    IN  <<LookupStage(MediaType), UnwindStage, AddFieldsStage>>
        \o (IF Len(match) > 0 THEN <<MatchStage(match)>> ELSE <<>>)
        \o <<buildSortStage(validatedSort, r.order)>>
        \o buildMediaPaginationStage(r.start, r.end)

MediaItemsPipeline(r) ==
    LET match == buildMatchStage(r.search, r.starred, r.albumId, r.artistId, r.year)
        validatedSort == validateSortField(r.sort, r.albumId)
    IN  <<LookupStage(MediaType), UnwindStage, AddFieldsStage>>
        \o (IF Len(match) > 0 THEN <<MatchStage(match)>> ELSE <<>>)
        \o (IF validatedSort = "play_date"
            THEN <<MatchStage(<<Gt("play_count", Num(0))>>)>> ELSE <<>>)
        \o <<buildSortStage(validatedSort, r.order)>>
        \o buildMediaPaginationStage(r.start, r.end)

MediaCountPipeline(r) ==
    <<LookupStage(MediaType),
      MatchStage(buildBaseMatch(r.search, r.albumId, r.artistId, r.year)),
      FacetStage>>

AlbumItemsPipeline(r) ==
    LET validatedSort == validateAlbumSortField(r.sort)
        match == buildAlbumMatch(r.search, r.starred, r.artistId, r.minYear, r.maxYear)
    IN  <<LookupStage(AlbumType), UnwindStage, AddFieldsStage>>
        \o (IF validatedSort = "play_count" \/ validatedSort = "play_date"
            THEN <<MatchStage(<<And(<<Gt("play_count", Num(0)), NeNull("play_date")>>)>>)>>
            ELSE <<>>)
        \o (IF Len(match) > 0 THEN <<MatchStage(match)>> ELSE <<>>)
        \o <<buildAlbumSortStage(validatedSort, r.order)>>
        \o buildAlbumPaginationStage(r.start, r.end)

AlbumCountPipeline(r) ==
    <<LookupStage(AlbumType),
      MatchStage(buildAlbumBaseMatch(r.search, r.starred, r.artistId, r.minYear, r.maxYear)),
      FacetStage>>

(***************************************************************************)
(* Snapshots of the catalog store.  The engine only reads the store; a     *)
(* snapshot is a collection of entities of the repository's kind and the   *)
(* annotation collection, with at most one annotation per (item_id,        *)
(* item_type).  An entity takes one of a few shapes; its _id is its        *)
(* position.                                                               *)
(***************************************************************************)
Annotation(itemType, playCount, playDate, rating, starred, starredAt) ==
    [item_type |-> Str(itemType), play_count |-> Num(playCount), play_date |-> playDate,
     rating |-> Num(rating), starred |-> Bool(starred), starred_at |-> starredAt]

MediaShapes ==
    <<[e |-> [title |-> Str(<<"a", "b">>), artist |-> Str(<<"x">>), album |-> Str(<<"m">>),
              order_title |-> Str(<<"a", "b">>), year |-> Num(1),
              album_id |-> Str(<<"m">>), artist_id |-> Str(<<"p">>),
              file_name |-> Str(<<"b">>)],
       anns |-> <<>>],
      [e |-> [title |-> Str(<<"B">>), artist |-> Str(<<"y">>), album |-> Str(<<"m">>),
              order_title |-> Str(<<"b">>), year |-> Num(1),
              album_id |-> Str(<<"m">>), artist_id |-> Str(<<"q">>),
              file_name |-> Str(<<"a">>)]
             @@ ("all_artist_ids.artist_id" :> Arr({<<"p">>, <<"q">>})),
       anns |-> <<Annotation(MediaType, 2, Date(5), 5, TRUE, Date(6))>>],
      [e |-> [title |-> Str(<<"c">>), artist |-> Str(<<"x">>), album |-> Str(<<"n">>),
              order_title |-> Str(<<"c">>), year |-> Num(2),
              album_id |-> Str(<<"n">>), artist_id |-> Str(<<"q">>),
              file_name |-> Str(<<"c">>)],
       anns |-> <<Annotation(MediaType, 0, Null, 0, FALSE, Null)>>],
      [e |-> [title |-> Str(<<"a">>), artist |-> Str(<<"B">>), album |-> Str(<<"n">>),
              order_title |-> Str(<<"a">>), year |-> Num(2),
              album_id |-> Str(<<"n">>), artist_id |-> Str(<<"p">>),
              file_name |-> Str(<<"a">>)],
       anns |-> <<Annotation(AlbumType, 9, Date(9), 1, TRUE, Date(9)),
                  Annotation(MediaType, 1, Date(3), 3, FALSE, Null)>>]>>

AlbumShapes ==
    <<[e |-> [name |-> Str(<<"a", "b">>), artist |-> Str(<<"x">>),
              album_artist |-> Str(<<"x">>), order_album_name |-> Str(<<"a", "b">>),
              min_year |-> Num(1), max_year |-> Num(5), artist_id |-> Str(<<"p">>)],
       anns |-> <<>>],
      [e |-> [name |-> Str(<<"B">>), artist |-> Str(<<"y">>),
              album_artist |-> Str(<<"x">>), order_album_name |-> Str(<<"b">>),
              min_year |-> Num(3), max_year |-> Num(4), artist_id |-> Str(<<"q">>)]
             @@ ("all_artist_ids.artist_id" :> Arr({<<"p">>, <<"q">>})),
       anns |-> <<Annotation(AlbumType, 2, Date(5), 5, TRUE, Date(6))>>],
      [e |-> [name |-> Str(<<"c">>), artist |-> Str(<<"x">>),
              album_artist |-> Str(<<"B">>), order_album_name |-> Str(<<"c">>),
              min_year |-> Num(8), max_year |-> Num(9), artist_id |-> Str(<<"q">>)],
       anns |-> <<Annotation(AlbumType, 1, Null, 0, FALSE, Null)>>],
      [e |-> [name |-> Str(<<"a">>), artist |-> Str(<<"y">>),
              album_artist |-> Str(<<"y">>), order_album_name |-> Str(<<"a">>),
              min_year |-> Num(0), max_year |-> Num(9), artist_id |-> Str(<<"p">>)],
       anns |-> <<Annotation(MediaType, 9, Date(9), 1, TRUE, Date(9)),
                  Annotation(AlbumType, 0, Null, 0, FALSE, Null)>>]>>

ShapesOf(k) == IF k = "media" THEN MediaShapes ELSE AlbumShapes

\* the annotation collection of the entities 1..n with shapes pick[1..n]
RECURSIVE AnnotationsOf(_, _, _)
AnnotationsOf(shapes, pick, n) ==
    IF n = 0 THEN <<>>
    ELSE AnnotationsOf(shapes, pick, n - 1)
         \o [i \in 1..Len(shapes[pick[n]].anns) |->
                shapes[pick[n]].anns[i] @@ ("item_id" :> Oid(n))]

SnapshotOf(shapes, pick, n) ==
    [ents |-> [i \in 1..n |-> shapes[pick[i]].e @@ ("_id" :> Oid(i))],
     anns |-> AnnotationsOf(shapes, pick, n)]

\* the snapshots of kind k whose entities take their shapes among idx
Snapshots(k, idx) ==
    {SnapshotOf(ShapesOf(k), pick, n) : pick \in [1..MaxEntities -> idx], n \in 0..MaxEntities}

(***************************************************************************)
(* Requests and outcomes.                                                  *)
(***************************************************************************)
NoReq ==
    [start |-> <<>>, end |-> <<>>, sort |-> <<>>, order |-> "", search |-> <<>>,
     starred |-> "", albumId |-> <<>>, artistId |-> <<>>, year |-> <<>>,
     minYear |-> <<>>, maxYear |-> <<>>]

NoCounts == [Total |-> 0, Starred |-> 0, RecentPlay |-> 0]

Outcome(status, err, cause, rows, counts) ==
    [status |-> status, err |-> err, cause |-> cause, rows |-> rows, counts |-> counts]

NoOutcome == Outcome("none", "", "", <<>>, NoCounts)

NoPrev == [op |-> "none", req |-> NoReq, outcome |-> NoOutcome]

(***************************************************************************)
(* The state machine.  A repository is constructed over a collection of    *)
(* its kind; a call composes its pipeline, runs coll.Aggregate and then    *)
(* cursor.All, and returns.  ctx is the context the store calls run       *)
(* under: "deadline" while the 10 second budget of the method runs,        *)
(* "caller" for the caller's own context, "done" once it has expired or    *)
(* was cancelled, "released" after the return.  outcome.cause records what *)
(* happened in the store client: "timeout", "store" or "shape".  prev is   *)
(* the call that completed before this one, when the caller keeps it.      *)
(***************************************************************************)
InitOver(kinds, idx) ==
    /\ kind \in kinds
    /\ store \in Snapshots(kind, idx)
    /\ req = NoReq
    /\ op = "none"
    /\ pipeline = <<>>
    /\ pc = "idle"
    /\ ctx = "released"
    /\ cursor = <<>>
    /\ outcome = NoOutcome
    /\ prev = NoPrev

\* a call starts: from rest, or (keep) by a caller that holds the outcome of the
\* call before and keeps it in prev
Begin(o, r, p, c, keep) ==
    /\ pc = (IF keep THEN "done" ELSE "idle")
    /\ req' = r
    /\ op' = o
    /\ pipeline' = p
    /\ ctx' = c
    /\ pc' = "aggregate"
    /\ cursor' = <<>>
    /\ outcome' = NoOutcome
    /\ prev' = IF keep THEN [op |-> op, req |-> req, outcome |-> outcome] ELSE NoPrev
    /\ UNCHANGED <<kind, store>>

\* the caller drops the outcome; the repository keeps nothing of a call
Release ==
    /\ pc = "done"
    /\ req' = NoReq
    /\ op' = "none"
    /\ pipeline' = <<>>
    /\ pc' = "idle"
    /\ outcome' = NoOutcome
    /\ prev' = NoPrev
    /\ UNCHANGED <<kind, store, ctx, cursor>>

GetMediaFileItems(r, keep) ==
    kind = "media" /\ Begin("items", r, MediaItemsPipeline(r), "deadline", keep)

GetMediaFileFilterItemsCount(r) ==
    kind = "media" /\ Begin("count", r, MediaCountPipeline(r), "caller", FALSE)

GetAlbumItems(r, keep) ==
    kind = "album" /\ Begin("items", r, AlbumItemsPipeline(r), "deadline", keep)

GetAlbumFilterItemsCount(r) ==
    kind = "album" /\ Begin("count", r, AlbumCountPipeline(r), "caller", FALSE)

\* the deadline passes, or the caller cancels, while the call is in the store client
CtxDone ==
    /\ pc \in {"aggregate", "cursor"}
    /\ ctx \in {"deadline", "caller"}
    /\ ctx' = "done"
    /\ UNCHANGED <<kind, store, req, op, pipeline, pc, cursor, outcome, prev>>

Return(o) ==
    /\ outcome' = o
    /\ pc' = "done"
    /\ ctx' = "released"
    /\ cursor' = <<>>
    /\ UNCHANGED <<kind, store, req, op, pipeline, prev>>

\* coll.Aggregate returns a cursor over the pipeline's output
AggregateOk ==
    /\ pc = "aggregate"
    /\ ctx # "done"
    /\ cursor' \in Exec(store.anns, CollectionRows(store.ents), pipeline)
    /\ pc' = "cursor"
    /\ UNCHANGED <<kind, store, req, op, pipeline, ctx, outcome, prev>>

\* coll.Aggregate returns an error: the context is done, or the store failed
AggregateErr ==
    /\ pc = "aggregate"
    /\ Return(Outcome("error",
                      IF op = "items" THEN "database query failed" ELSE "count query failed",
                      IF ctx = "done" THEN "timeout" ELSE "store",
                      <<>>, NoCounts))

\* a $sort document of pipeline p names a field more than once
HasDuplicateSortKey(p) ==
    \E k \in 1..Len(p) :
        \E i, j \in 1..Len(p[k].sort) : i < j /\ p[k].sort[i].Key = p[k].sort[j].Key

\* coll.Aggregate returns an error because the store refuses the pipeline: the
\* driver sends a bson.D as it is, repeated keys included, and a store may
\* refuse a $sort document that names a field twice
AggregateReject ==
    /\ pc = "aggregate"
    /\ ctx # "done"
    /\ HasDuplicateSortKey(pipeline)
    /\ Return(Outcome("error",
                      IF op = "items" THEN "database query failed" ELSE "count query failed",
                      "rejected", <<>>, NoCounts))

DecodeRows(docs) == [i \in 1..Len(docs) |-> docs[i].e]

DecodeCounts(result) ==
    IF Len(result) > 0
    THEN [Total |-> extractCount(result[1]["total"]),
          Starred |-> extractCount(result[1]["starred"]),
          RecentPlay |-> extractCount(result[1]["recent_play"])]
    ELSE NoCounts

\* cursor.All reads and decodes every document
AllOk ==
    /\ pc = "cursor"
    /\ Return(IF op = "items"
              THEN Outcome("ok", "", "", DecodeRows(cursor), NoCounts)
              ELSE Outcome("ok", "", "", <<>>, DecodeCounts(cursor)))

\* cursor.All returns an error: a further batch could not be fetched because the
\* context is done or the store failed, or a document does not fit the result type
AllErr(cause) ==
    /\ pc = "cursor"
    /\ cause = "timeout" => ctx = "done"
    /\ cause = "store" => ctx # "done"
    /\ Return(Outcome("error",
                      IF op = "items" THEN "decode error" ELSE "decode count error",
                      cause, <<>>, NoCounts))

\* the steps of a call that the store serves without a failure
Run ==
    \/ Release
    \/ AggregateOk
    \/ AllOk

\* every step of a call
Step ==
    \/ Release
    \/ CtxDone
    \/ AggregateOk
    \/ AggregateErr
    \/ AllOk
    \/ \E cause \in {"timeout", "store", "shape"} : AllErr(cause)

(***************************************************************************)
(* Specification SpecPage: the paging bounds vary over every short string. *)
(***************************************************************************)
StartChars == {"0", "1", "-"}

EndChars == {"2", "a"}

PageReqs ==
    {[NoReq EXCEPT !.start = s, !.end = e, !.sort = Spell["rating"], !.order = "desc"] :
        s \in StringsUpTo(StartChars, MaxNumLen), e \in StringsUpTo(EndChars, MaxNumLen)}

InitPage == InitOver({"media", "album"}, {1, 3})

NextPage ==
    \/ \E r \in PageReqs : GetMediaFileItems(r, FALSE)
    \/ \E r \in PageReqs : GetAlbumItems(r, FALSE)
    \/ Step

SpecPage == InitPage /\ [][NextPage]_vars

(***************************************************************************)
(* Specification SpecFilter: the optional filter parameters vary, parsable *)
(* and not; no paging, a sort key that restricts nothing.                  *)
(***************************************************************************)
StarredVals == {"", "true", "0", "yes"}

MediaFilterReqs ==
    {[NoReq EXCEPT !.sort = Spell["artist"], !.starred = st, !.year = y, !.search = se,
                   !.artistId = ar, !.albumId = al] :
        st \in StarredVals, y \in StringsUpTo({"1", "a"}, MaxNumLen),
        se \in {<<>>, <<"b">>}, ar \in {<<>>, <<"p">>}, al \in {<<>>, <<"m">>}}

AlbumFilterReqs ==
    {[NoReq EXCEPT !.sort = Spell["artist"], !.starred = st, !.minYear = lo, !.maxYear = hi,
                   !.search = se, !.artistId = ar] :
        st \in StarredVals, lo \in StringsUpTo({"3", "a"}, MaxNumLen),
        hi \in {<<>>, <<"7">>, <<"a">>},
        se \in {<<>>, <<"b">>}, ar \in {<<>>, <<"p">>}}

InitFilter == InitOver({"media", "album"}, {1, 3})

NextFilter ==
    \/ \E r \in MediaFilterReqs : GetMediaFileItems(r, FALSE)
    \/ \E r \in AlbumFilterReqs : GetAlbumItems(r, FALSE)
    \/ Run

SpecFilter == InitFilter /\ [][NextFilter]_vars

(***************************************************************************)
(* Specification SpecYear: albums, the year window varies.                 *)
(***************************************************************************)
YearReqs ==
    {[NoReq EXCEPT !.sort = Spell["name"], !.minYear = lo, !.maxYear = hi] :
        lo \in StringsUpTo({"3", "a"}, MaxNumLen), hi \in StringsUpTo({"7", "a"}, MaxNumLen)}

InitYear == InitOver({"album"}, {1, 2, 3, 4})

NextYear ==
    \/ \E r \in YearReqs : GetAlbumItems(r, FALSE)
    \/ Run

SpecYear == InitYear /\ [][NextYear]_vars

\* start and end are integers with 0 <= start < end
ValidRange(r) ==
    /\ AtoiOk(r.start)
    /\ AtoiOk(r.end)
    /\ AtoiVal(r.start) >= 0
    /\ AtoiVal(r.end) > AtoiVal(r.start)

(***************************************************************************)
(* Specification SpecSort: the sort key, the order and the page vary; the  *)
(* caller may issue the same request again, or ask for the next page,      *)
(* while it holds the outcome of the call before.                          *)
(***************************************************************************)
SortInputs ==
    {<<>>, Spell["title"], Spell["play_count"], <<"P", "l", "a", "y", "_", "D", "a", "t", "e">>,
     Spell["rating"], Spell["name"], Spell["order_album_name"], <<"$", "x">>}

PageInputs == {<<<<>>, <<>>>>, <<<<"0">>, <<"1">>>>, <<<<"1">>, <<"2">>>>}

MediaSortReqs ==
    {[NoReq EXCEPT !.sort = s, !.order = o, !.albumId = al, !.start = pg[1], !.end = pg[2]] :
        s \in SortInputs, o \in {"asc", "desc"}, al \in {<<>>, <<"m">>}, pg \in PageInputs}

AlbumSortReqs ==
    {[NoReq EXCEPT !.sort = s, !.order = o, !.start = pg[1], !.end = pg[2]] :
        s \in SortInputs, o \in {"asc", "desc"}, pg \in PageInputs}

\* b asks for the page after the page of a, of the same query
IsNextPage(a, b) ==
    /\ ValidRange(a)
    /\ ValidRange(b)
    /\ AtoiVal(b.start) = AtoiVal(a.end)
    /\ [b EXCEPT !.start = a.start, !.end = a.end] = a

\* the requests a caller issues while it holds the outcome of request a
Followups(a, reqs) == {b \in reqs : b = a \/ IsNextPage(a, b)}

InitSort == InitOver({"media", "album"}, {1, 2, 3, 4})

NextSort ==
    \/ \E r \in MediaSortReqs : GetMediaFileItems(r, FALSE)
    \/ \E r \in AlbumSortReqs : GetAlbumItems(r, FALSE)
    \/ /\ pc = "done" /\ kind = "media" /\ prev = NoPrev
       /\ \E r \in Followups(req, MediaSortReqs) : GetMediaFileItems(r, TRUE)
    \/ /\ pc = "done" /\ kind = "album" /\ prev = NoPrev
       /\ \E r \in Followups(req, AlbumSortReqs) : GetAlbumItems(r, TRUE)
    \/ Run

SpecSort == InitSort /\ [][NextSort]_vars

(***************************************************************************)
(* Specification SpecCount: filterCounts over the filter parameters.       *)
(***************************************************************************)
MediaCountReqs ==
    {[NoReq EXCEPT !.starred = st, !.search = se, !.artistId = ar, !.albumId = al, !.year = y] :
        st \in {"", "true", "0"}, se \in {<<>>, <<"b">>}, ar \in {<<>>, <<"p">>},
        al \in {<<>>, <<"m">>}, y \in {<<>>, <<"1">>}}

AlbumCountReqs ==
    {[NoReq EXCEPT !.starred = st, !.search = se, !.artistId = ar, !.minYear = lo,
                   !.maxYear = hi] :
        st \in {"", "true", "0"}, se \in {<<>>, <<"b">>}, ar \in {<<>>, <<"p">>},
        lo \in {<<>>, <<"3">>}, hi \in {<<>>, <<"7">>}}

InitCount == InitOver({"media", "album"}, {1, 2, 3, 4})

NextCount ==
    \/ \E r \in MediaCountReqs : GetMediaFileFilterItemsCount(r)
    \/ \E r \in AlbumCountReqs : GetAlbumFilterItemsCount(r)
    \/ Run

SpecCount == InitCount /\ [][NextCount]_vars

(***************************************************************************)
(* Specification SpecExec: the four methods against a store that may fail  *)
(* and a context that may end at any point of the call.                    *)
(***************************************************************************)
ExecReqs ==
    {[NoReq EXCEPT !.sort = s, !.starred = st] :
        s \in {<<>>, Spell["rating"]}, st \in {"", "true"}}

InitExec == InitOver({"media", "album"}, {1, 2})

NextExec ==
    \/ \E r \in ExecReqs : GetMediaFileItems(r, FALSE)
    \/ \E r \in ExecReqs : GetMediaFileFilterItemsCount(r)
    \/ \E r \in ExecReqs : GetAlbumItems(r, FALSE)
    \/ \E r \in ExecReqs : GetAlbumFilterItemsCount(r)
    \/ Step

SpecExec == InitExec /\ [][NextExec]_vars

(***************************************************************************)
(* Specification SpecDefault: listItems with sort keys that no table       *)
(* knows, every order value, against a store that may refuse a malformed   *)
(* pipeline.                                                               *)
(***************************************************************************)
UnknownSorts == {<<>>, <<"$", "x">>, <<"_", "i", "d">>, <<"T", "i", "t", "l", "e", "s">>}

OrderInputs == {"asc", "desc", "DESC", ""}

MediaDefaultReqs ==
    {[NoReq EXCEPT !.sort = s, !.order = o, !.albumId = al] :
        s \in UnknownSorts, o \in OrderInputs, al \in {<<>>, <<"m">>}}

AlbumDefaultReqs ==
    {[NoReq EXCEPT !.sort = s, !.order = o] : s \in UnknownSorts, o \in OrderInputs}

InitDefault == InitOver({"media", "album"}, {1, 2, 3})

NextDefault ==
    \/ \E r \in MediaDefaultReqs : GetMediaFileItems(r, FALSE)
    \/ \E r \in AlbumDefaultReqs : GetAlbumItems(r, FALSE)
    \/ AggregateReject
    \/ Run

SpecDefault == InitDefault /\ [][NextDefault]_vars

(***************************************************************************)
(* What the claims speak of.                                               *)
(***************************************************************************)
\* a call of listItems has returned a result
ItemsOk == pc = "done" /\ op = "items" /\ outcome.status = "ok"

\* a call of filterCounts has returned a result
CountOk == pc = "done" /\ op = "count" /\ outcome.status = "ok"

IsPaging(st) == st.op = "$skip" \/ st.op = "$limit"

\* the pipeline p without its paging stages
Unpaged(p) == SelectSeq(p, LAMBDA st : ~IsPaging(st))

\* the decoded outputs the store may give for pipeline p on the snapshot
Outputs(p) == {DecodeRows(out) : out \in Exec(store.anns, CollectionRows(store.ents), p)}

Ids(rows) == {rows[i]["_id"].n : i \in 1..Len(rows)}

(***************************************************************************)
(* C1: when start and end parse as integers with 0 <= start < end, the     *)
(* list returned is the rows at positions start .. end-1 of the filtered,  *)
(* sorted sequence and has at most end - start rows; in every other case   *)
(* the pipeline has no skip and no limit stage and the whole filtered,     *)
(* sorted sequence is returned.                                            *)
(***************************************************************************)
C1_Pagination ==
    /\ (pc # "idle" /\ op = "items" /\ ~ValidRange(req)) => pipeline = Unpaged(pipeline)
    /\ ItemsOk =>
         \E all \in Outputs(Unpaged(pipeline)) :
            IF ValidRange(req)
            THEN /\ outcome.rows =
                       SubSeq(all, AtoiVal(req.start) + 1, Min(AtoiVal(req.end), Len(all)))
                 /\ Len(outcome.rows) <= AtoiVal(req.end) - AtoiVal(req.start)
            ELSE outcome.rows = all

\* a page that leaves out rows before it and after it
C1_Witness ==
    /\ ItemsOk
    /\ ValidRange(req)
    /\ AtoiVal(req.start) = 1
    /\ Len(outcome.rows) = 1
    /\ Len(store.ents) = 3

\* the pipeline listItems composes for request r
ItemsPipeline(r) == IF kind = "media" THEN MediaItemsPipeline(r) ELSE AlbumItemsPipeline(r)

\* the entity ids of the snapshot that have no annotation of the repository's kind
Unannotated ==
    {i \in 1..Len(store.ents) :
        ~\E j \in 1..Len(store.anns) :
            /\ store.anns[j]["item_id"].n = i
            /\ store.anns[j]["item_type"].s = (IF kind = "media" THEN MediaType ELSE AlbumType)}

(***************************************************************************)
(* C2: an entity without annotation is kept by the join and counts as      *)
(* starred false: a request whose starred parameter parses to false        *)
(* returns every un-annotated entity that passes the other filters (those  *)
(* that the same request without starred returns).                         *)
(***************************************************************************)
C2_UnannotatedCountAsUnstarred ==
    (ItemsOk /\ ParseBoolOk(req.starred) /\ ~ParseBoolVal(req.starred)) =>
        \A all \in Outputs(ItemsPipeline([req EXCEPT !.starred = ""])) :
            (Ids(all) \cap Unannotated) \subseteq Ids(outcome.rows)

\* request r with every filter parameter that fails to parse left out
Omitting(r) ==
    [r EXCEPT !.starred = IF ParseBoolOk(r.starred) THEN r.starred ELSE "",
              !.year = IF AtoiOk(r.year) THEN r.year ELSE <<>>,
              !.minYear = IF AtoiOk(r.minYear) THEN r.minYear ELSE <<>>,
              !.maxYear = IF AtoiOk(r.maxYear) THEN r.maxYear ELSE <<>>]

(***************************************************************************)
(* C6: a filter parameter that fails to parse (starred, year, minYear,     *)
(* maxYear) changes nothing: the pipeline composed is the one composed     *)
(* without the parameter, and so is the list returned.                     *)
(***************************************************************************)
C6_UnparsableIsOmitted ==
    /\ (pc # "idle" /\ op = "items") => pipeline = ItemsPipeline(Omitting(req))
    /\ ItemsOk => outcome.rows \in Outputs(ItemsPipeline(Omitting(req)))

\* an unparsable starred beside an unparsable number, and rows are returned
C6_Witness ==
    /\ ItemsOk
    /\ req.starred = "yes"
    /\ (req.year = <<"a">> \/ req.minYear = <<"a">>)
    /\ req.search # <<>>
    /\ Len(outcome.rows) > 0

\* y lies inside the bound the request gives
InsideBound(y, r) ==
    /\ AtoiOk(r.minYear) => y >= AtoiVal(r.minYear)
    /\ AtoiOk(r.maxYear) => y <= AtoiVal(r.maxYear)

(***************************************************************************)
(* C10: with minYear and/or maxYear given as integers, the albums returned *)
(* are exactly those whose min_year lies inside the requested bound or     *)
(* whose max_year does.                                                    *)
(***************************************************************************)
C10_YearEitherEndpoint ==
    (ItemsOk /\ kind = "album" /\ (AtoiOk(req.minYear) \/ AtoiOk(req.maxYear))
       /\ req.search = <<>> /\ req.starred = "" /\ req.artistId = <<>>) =>
        Ids(outcome.rows) =
            {i \in 1..Len(store.ents) :
                \/ InsideBound(store.ents[i]["min_year"].n, req)
                \/ InsideBound(store.ents[i]["max_year"].n, req)}

\* the window 3..7 returns an album that spans 1..5 and leaves out one that spans 0..9
C10_Witness ==
    /\ ItemsOk
    /\ req.minYear = <<"3">>
    /\ req.maxYear = <<"7">>
    /\ \E i \in 1..Len(outcome.rows) :
          outcome.rows[i]["min_year"].n = 1 /\ outcome.rows[i]["max_year"].n = 5
    /\ \E i \in 1..Len(store.ents) :
          store.ents[i]["min_year"].n = 0 /\ i \notin Ids(outcome.rows)

\* the sort document of the composed pipeline, and the field it names first
SortDoc == pipeline[CHOOSE i \in 1..Len(pipeline) : pipeline[i].op = "$sort"].sort

SortField == SortDoc[1].Key

\* the entity ids with an annotation of the repository's kind that has been played
\* (withDate: and carries a play date)
Played(withDate) ==
    {i \in 1..Len(store.ents) :
        \E j \in 1..Len(store.anns) :
            /\ store.anns[j]["item_id"].n = i
            /\ store.anns[j]["item_type"].s = (IF kind = "media" THEN MediaType ELSE AlbumType)
            /\ store.anns[j]["play_count"].n > 0
            /\ withDate => store.anns[j]["play_date"].t = "date"}

\* the entity ids that pass the album filter of the request
InAlbum ==
    {i \in 1..Len(store.ents) :
        req.albumId = <<>> \/ store.ents[i]["album_id"].s = req.albumId}

PlayRestricted ==
    \/ kind = "media" /\ SortField = "play_date"
    \/ kind = "album" /\ SortField \in {"play_count", "play_date"}

(***************************************************************************)
(* C3: when the resolved sort field is play_date (tracks), or play_count   *)
(* or play_date (albums), listItems returns only entities whose play_count *)
(* is greater than 0 (albums: and whose play_date is not null): the        *)
(* others, un-annotated ones included, are absent.  For every other        *)
(* resolved field (play_count for tracks included) nothing is left out.    *)
(* Stated for requests with no filter but albumId.                         *)
(***************************************************************************)
C3_PlaySortRestricts ==
    (ItemsOk /\ req.search = <<>> /\ req.starred = "" /\ req.artistId = <<>>
       /\ req.year = <<>> /\ req.minYear = <<>> /\ req.maxYear = <<>>) =>
        LET expected == IF PlayRestricted THEN InAlbum \cap Played(kind = "album")
                        ELSE InAlbum
        IN  /\ Ids(outcome.rows) \subseteq expected
            /\ ~ValidRange(req) => Ids(outcome.rows) = expected

\* tracks sorted by play date: some are returned, the un-annotated one is not
C3_Witness ==
    /\ ItemsOk
    /\ kind = "media"
    /\ SortField = "play_date"
    /\ Len(outcome.rows) > 0
    /\ \E i \in Unannotated : i \notin Ids(outcome.rows)

\* the kind's default sort field
DefaultField == IF kind = "media" /\ req.albumId # <<>> THEN "file_name" ELSE "_id"

\* the kind's table of logical sort keys
SortTable == IF kind = "media" THEN mediaSortMappings ELSE albumSortMappings

(***************************************************************************)
(* C4 as stated: the sort field is the table's physical field for the      *)
(* lower-cased key when that is a logical key of the kind, and the kind's  *)
(* default otherwise.                                                      *)
(***************************************************************************)
C4_Original ==
    (pc # "idle" /\ op = "items") =>
        SortField = IF \E k \in DOMAIN SortTable : Spell[k] = ToLower(req.sort)
                    THEN SortTable[CHOOSE k \in DOMAIN SortTable : Spell[k] = ToLower(req.sort)]
                    ELSE DefaultField

(***************************************************************************)
(* C4 amended: as C4, but for albums a key that is no logical key and      *)
(* whose lower-cased spelling is the physical field order_album_name       *)
(* resolves to that field; the sort field is in every case a physical      *)
(* field of the kind's table or the kind's default.                        *)
(***************************************************************************)
C4_SortFieldAllowListed ==
    (pc # "idle" /\ op = "items") =>
        /\ SortField \in {SortTable[k] : k \in DOMAIN SortTable} \cup {DefaultField}
        /\ SortField =
             IF \E k \in DOMAIN SortTable : Spell[k] = ToLower(req.sort)
             THEN SortTable[CHOOSE k \in DOMAIN SortTable : Spell[k] = ToLower(req.sort)]
             ELSE IF kind = "album" /\ ToLower(req.sort) = Spell["order_album_name"]
                  THEN "order_album_name"
                  ELSE DefaultField

\* an album request that names the physical field order_album_name
C4_Witness ==
    /\ pc = "aggregate"
    /\ kind = "album"
    /\ req.sort = Spell["order_album_name"]
    /\ SortField = "order_album_name"

(***************************************************************************)
(* C5: the rows returned are ordered by the resolved field in the          *)
(* requested direction, rows that tie on it by ascending entity id; the    *)
(* same request issued again on the same snapshot returns the same         *)
(* sequence; a page and the page after it hold no entity twice and         *)
(* together are the rows of the joined range.                              *)
(***************************************************************************)
C5_DeterministicOrder ==
    ItemsOk =>
        /\ \A i, j \in 1..Len(outcome.rows) :
              i < j =>
                LET c == CmpVal(Get(outcome.rows[i], SortField), Get(outcome.rows[j], SortField))
                        * (IF req.order = "desc" THEN -1 ELSE 1)
                IN  c < 0 \/ (c = 0 /\ outcome.rows[i]["_id"].n < outcome.rows[j]["_id"].n)
        /\ (prev.outcome.status = "ok" /\ prev.req = req) => outcome.rows = prev.outcome.rows
        /\ (prev.outcome.status = "ok" /\ IsNextPage(prev.req, req)) =>
              /\ Ids(prev.outcome.rows) \cap Ids(outcome.rows) = {}
              /\ (prev.outcome.rows \o outcome.rows)
                    \in Outputs(ItemsPipeline([req EXCEPT !.start = prev.req.start]))

\* a second page after a first, of rows that tie on the sort field
C5_Witness ==
    /\ ItemsOk
    /\ prev.outcome.status = "ok"
    /\ IsNextPage(prev.req, req)
    /\ Len(outcome.rows) = 1
    /\ Len(prev.outcome.rows) = 1
    /\ req.order = "desc"
    /\ SortField # "_id"
    /\ Get(outcome.rows[1], SortField) = Get(prev.outcome.rows[1], SortField)

\* the entity ids with an annotation of the repository's kind that is starred
Starred ==
    {i \in 1..Len(store.ents) :
        \E j \in 1..Len(store.anns) :
            /\ store.anns[j]["item_id"].n = i
            /\ store.anns[j]["item_type"].s = (IF kind = "media" THEN MediaType ELSE AlbumType)
            /\ store.anns[j]["starred"] = Bool(TRUE)}

\* the entity ids of the joined and filtered set that the count pipeline counts over:
\* the output of its $lookup and $match stages
CountBase ==
    UNION {Ids(DecodeRows(out)) :
             out \in Exec(store.anns, CollectionRows(store.ents), SubSeq(pipeline, 1, 2))}

(***************************************************************************)
(* C7: filterCounts returns three non-negative integers with               *)
(* starred <= total and recent_play <= total, counted over one and the     *)
(* same joined and filtered set: total is its size, starred the number of  *)
(* its entities whose annotation is starred, recent_play the number whose  *)
(* annotation has play_count > 0; a branch that matches no row gives 0.    *)
(***************************************************************************)
C7_FacetConsistency ==
    CountOk =>
        /\ outcome.counts.Total >= 0
        /\ outcome.counts.Starred >= 0
        /\ outcome.counts.RecentPlay >= 0
        /\ outcome.counts.Starred <= outcome.counts.Total
        /\ outcome.counts.RecentPlay <= outcome.counts.Total
        /\ outcome.counts.Total = Cardinality(CountBase)
        /\ outcome.counts.Starred = Cardinality(CountBase \cap Starred)
        /\ outcome.counts.RecentPlay = Cardinality(CountBase \cap Played(FALSE))

\* three entities counted, none starred, one played
C7_Witness ==
    /\ CountOk
    /\ outcome.counts.Total = 3
    /\ outcome.counts.Starred = 0
    /\ outcome.counts.RecentPlay = 1

(***************************************************************************)
(* C8: the counts of filterCounts are those of the list that listItems     *)
(* returns for the same filter parameters without paging and with a sort   *)
(* key that restricts nothing: total its length, starred the number of its *)
(* rows with starred true, recent_play the number with play_count > 0.     *)
(***************************************************************************)
C8_CountsMatchList ==
    CountOk =>
        \A rows \in Outputs(ItemsPipeline([req EXCEPT !.sort = Spell["rating"],
                                                      !.start = <<>>, !.end = <<>>])) :
            /\ outcome.counts.Total = Len(rows)
            /\ outcome.counts.Starred =
                  Cardinality({i \in 1..Len(rows) : Get(rows[i], "starred") = Bool(TRUE)})
            /\ outcome.counts.RecentPlay =
                  Cardinality({i \in 1..Len(rows) : GtV(Get(rows[i], "play_count"), Num(0))})

(***************************************************************************)
(* C9: a call ends in a result with no error, in a store-execution failure *)
(* with no result, or in a decode failure with no result; a failure of the *)
(* store round-trip, the context ending before the result is read          *)
(* included, is a store-execution failure, and a decode failure is         *)
(* reported only for data that does not fit the expected shape.            *)
(***************************************************************************)
C9_FailureKinds ==
    pc = "done" =>
        /\ \/ outcome.status = "ok" /\ outcome.err = ""
           \/ /\ outcome.status = "error"
              /\ outcome.rows = <<>>
              /\ outcome.counts = NoCounts
              /\ outcome.err \in {"database query failed", "count query failed",
                                  "decode error", "decode count error"}
        /\ outcome.cause \in {"timeout", "store"} =>
              outcome.err \in {"database query failed", "count query failed"}
        /\ outcome.err \in {"decode error", "decode count error"} => outcome.cause = "shape"

\* the sort key of the request is in no table of the kind
Unrecognized ==
    /\ ~\E k \in DOMAIN SortTable : Spell[k] = ToLower(req.sort)
    /\ kind = "album" => ~\E f \in validSortFields : Spell[f] = ToLower(req.sort)

\* rows are in the order of field f, descending when the request says "desc"
OrderedBy(rows, f) ==
    \A i, j \in 1..Len(rows) :
        i < j => CmpVal(Get(rows[i], f), Get(rows[j], f))
                    * (IF req.order = "desc" THEN -1 ELSE 1) <= 0

(***************************************************************************)
(* C11: with a sort key that no table knows, whatever the order value, the *)
(* sort document names each field at most once, the call does not fail,    *)
(* and the rows come in the order of the kind's default field in the       *)
(* requested direction.                                                    *)
(***************************************************************************)
C11_UnknownSortWellFormed ==
    (pc # "idle" /\ op = "items" /\ Unrecognized) =>
        /\ SortField = DefaultField
        /\ ~HasDuplicateSortKey(pipeline)
        /\ pc = "done" => outcome.status = "ok"
        /\ ItemsOk => OrderedBy(outcome.rows, DefaultField)

====
